---- MODULE Spec2Model ----
(***************************************************************************)
(* wsb-analyst: the ticker extractor and mention aggregator of src/api.js, *)
(* the recommendation synthesis and the runAnalysis orchestrator of        *)
(* src/App.jsx, and the score ordering of App and Dashboard.               *)
(*                                                                         *)
(* Numbers.  JavaScript numbers are modelled by integers:                  *)
(*   - sub-scores and composite scores are whole points;                   *)
(*   - every other metric (P/E, growth, volatility, ...) is held in        *)
(*     thousandths (1250 stands for 1.25);                                 *)
(*   - a weighted mention score is held in hundredths.                     *)
(* The arithmetic is exact.  The inputs are drawn from grids on which the  *)
(* IEEE-754 evaluation of the same expressions gives the same result.      *)
(*                                                                         *)
(* Absent values.  null and undefined are modelled by the empty tuple      *)
(* None and a present value v by the one-element tuple <<v>>.              *)
(***************************************************************************)
EXTENDS Integers, Sequences, FiniteSets, TLC

VARIABLES
    trending, stocks, loading, progress, error,  \* React state of App
    pc, data, tickers, i,                        \* runAnalysis: position and locals
    netlog, warned,                              \* requests issued / console.warn lines of the run
    text, extracted,                             \* extractTickers: argument and result
    children, ranked,                            \* fetchTrending: listing and result
    detail, rec,                                 \* synthesis: bundle and recommendation
    restarted                                    \* history: the run began over earlier results

appVars == <<trending, stocks, loading, progress, error, pc, data, tickers, i, netlog, warned>>
textVars == <<text, extracted>>
feedVars == <<children, ranked>>
synthVars == <<detail, rec>>
runVars == <<restarted>>
vars == <<appVars, textVars, feedVars, synthVars, runVars>>

None == <<>>
Some(v) == <<v>>
IsPresent(o) == o # None
Val(o) == o[1]

\* F(v) with v evaluated first: TLC hands an operator its arguments unevaluated,
\* and a long chain of pending arguments exhausts its stack
Bind(v, F(_)) == CHOOSE result \in {F(x) : x \in {v}} : TRUE

Min(a, b) == IF a < b THEN a ELSE b
Abs(n) == IF n < 0 THEN -n ELSE n

\* a slice that keeps the whole array
SliceAll(s, n) == s

\* Array.prototype.slice(0, n)
Slice(s, n) == SubSeq(s, 1, Min(n, Len(s)))

\* Array.prototype.join
RECURSIVE JoinStr(_, _)
JoinStr(s, sep) ==
    IF s = <<>> THEN ""
    ELSE IF Len(s) = 1 THEN s[1]
    ELSE s[1] \o sep \o JoinStr(Tail(s), sep)

(***************************************************************************)
(* src/api.js: the lexicon and the two ticker patterns.  A text is a       *)
(* sequence of one-character strings.                                      *)
(***************************************************************************)
FALSE_POSITIVES == {
    "I", "A", "AM", "AN", "AT", "BE", "BY", "DO", "GO", "IF",
    "IN", "IS", "IT", "ME", "MY", "NO", "OF", "OK", "ON", "OR",
    "SO", "TO", "UP", "US", "WE", "CEO", "CFO", "CTO", "COO", "IPO",
    "ETF", "SEC", "FDA", "FED", "GDP", "ATH", "DD", "DFV", "EPS", "EOD",
    "ERR", "EST", "FOR", "FYI", "GG", "HQ", "IMO", "LOL", "NYC", "OTC",
    "PDT", "PE", "PM", "PT", "RH", "SP", "TD", "UK", "USA", "WSB",
    "YOLO", "FOMO", "HODL", "MOON", "APE", "APR", "MAY", "JUN", "JUL", "AUG",
    "SEP", "OCT", "NOV", "DEC", "JAN", "FEB", "MAR", "MON", "TUE", "WED",
    "THU", "FRI", "SAT", "SUN", "THE", "AND", "BUT", "NOT", "ALL", "ANY",
    "ARE", "CAN", "DAY", "DID", "GET", "GOT", "HAS", "HAD", "HER", "HIM",
    "HIS", "HOW", "ITS", "LET", "MAD", "MAN", "MEN", "NEW", "NOW", "OLD",
    "ONE", "OUR", "OUT", "OWN", "PUT", "RAN", "RED", "RUN", "SAW", "SAY",
    "SHE", "THE", "TOO", "TOP", "TRY", "TWO", "WAR", "WAS", "WAY", "WHO",
    "WHY", "WIN", "WON", "YET", "YOU", "BIG", "LOW", "HIGH", "CALL", "PUTS",
    "LONG", "SHORT", "BULL", "BEAR", "HOLD", "SELL", "BUY", "GAIN", "LOSS", "PUMP",
    "DUMP", "CASH", "DEBT", "RISK", "SAFE", "EDIT", "TLDR", "OP", "LMAO", "ROPE",
    "RIP", "BANG", "OG", "AI", "EV", "GOOD", "BAD", "BEST", "LIKE", "JUST",
    "EVEN", "OVER", "MOST", "MUCH", "NEXT", "ONLY", "VERY", "WELL", "ALSO", "BACK",
    "BEEN", "COME", "DOWN", "EACH", "FIND", "GIVE", "HAVE", "HERE", "KEEP", "LAST",
    "LOOK", "MADE", "MAKE", "MANY", "MORE", "MOVE", "MUST", "NAME", "NEED", "OPEN",
    "PART", "PLAY", "REAL", "SAID", "SAME", "SOME", "SURE", "TAKE", "TELL", "THAN",
    "THAT", "THEM", "THEN", "THEY", "THIS", "TIME", "TURN", "WANT", "WEEK", "WENT",
    "WERE", "WHAT", "WHEN", "WILL", "WITH", "WORK", "YEAR", "YOUR", "FREE", "HUGE",
    "HARD", "ZERO", "LMFAO", "COST", "FROM", "DOES", "DONE", "FULL", "HALF", "HELP",
    "HOME", "INTO", "LEFT", "LESS", "LIFE", "LINE", "LIST", "LIVE", "LONG", "LOST",
    "MARK", "MISS", "OWE", "PAYS", "POST", "REST", "RICH", "RISE", "SAVE", "SIDE",
    "SIZE", "STOP", "TALK", "TERM", "THEM", "TILL", "TRUE", "TYPE", "USED", "WAIT",
    "WAKE", "WALL", "WISH", "WORD", "YALL", "HOLY", "SHIT" }

UpperChars == {"A","B","C","D","E","F","G","H","I","J","K","L","M",
               "N","O","P","Q","R","S","T","U","V","W","X","Y","Z"}
LowerChars == {"a","b","c","d","e","f","g","h","i","j","k","l","m",
               "n","o","p","q","r","s","t","u","v","w","x","y","z"}
DigitChars == {"0","1","2","3","4","5","6","7","8","9"}
\* the characters \b treats as part of a word: [A-Za-z0-9_]
WordChars == UpperChars \cup LowerChars \cup DigitChars \cup {"_"}

IsWordAt(t, p) == p >= 1 /\ p <= Len(t) /\ t[p] \in WordChars
\* \b between position p and position p + 1 (p = 0: the start of the text)
WordBoundary(t, p) == IsWordAt(t, p) # IsWordAt(t, p + 1)
\* [A-Z]{k} at positions p .. p + k - 1
UpperRun(t, p, k) == p + k - 1 <= Len(t) /\ \A q \in p..(p + k - 1) : t[q] \in UpperChars

\* the length of the group [A-Z]{lo,hi} followed by \b, longest first; 0: no match
GroupLen(t, p, lo, hi) ==
    LET ok == {k \in lo..hi : UpperRun(t, p, k) /\ WordBoundary(t, p + k - 1)}
    IN IF ok = {} THEN 0 ELSE CHOOSE k \in ok : \A m \in ok : m <= k

\* TICKER_RE = /\$([A-Z]{1,5})\b/g tried at position p: the length of the group
CashtagAt(t, p) == IF t[p] = "$" THEN GroupLen(t, p + 1, 1, 5) ELSE 0

\* BARE_TICKER_RE = /\b([A-Z]{2,5})\b/g tried at position p: the length of the group
BareAt(t, p) == IF WordBoundary(t, p - 1) THEN GroupLen(t, p, 2, 5) ELSE 0

\* the captured group as a string
Group(t, p, k) == JoinStr(SubSeq(t, p, p + k - 1), "")

\* text.matchAll(TICKER_RE): the groups of the successive non-overlapping matches
RECURSIVE CashtagMatches(_, _)
CashtagMatches(t, p) ==
    IF p > Len(t) THEN <<>>
    ELSE LET k == CashtagAt(t, p)
         IN IF k = 0 THEN CashtagMatches(t, p + 1)
            ELSE <<Group(t, p + 1, k)>> \o CashtagMatches(t, p + 1 + k)

\* text.matchAll(BARE_TICKER_RE)
RECURSIVE BareMatches(_, _)
BareMatches(t, p) ==
    IF p > Len(t) THEN <<>>
    ELSE LET k == BareAt(t, p)
         IN IF k = 0 THEN BareMatches(t, p + 1)
            ELSE <<Group(t, p, k)>> \o BareMatches(t, p + k)

InSeq(x, s) == \E k \in 1..Len(s) : s[k] = x

\* the loop body without the lexicon test
AddMatchUnfiltered(set, m) == IF InSeq(m, set) THEN set ELSE Append(set, m)

\* the loop body of extractTickers: if (!FALSE_POSITIVES.has(m[1])) tickers.add(m[1])
AddMatch(set, m) == IF m \in FALSE_POSITIVES \/ InSeq(m, set) THEN set ELSE Append(set, m)

RECURSIVE AddMatches(_, _)
AddMatches(set, ms) == IF ms = <<>> THEN set ELSE AddMatches(AddMatch(set, Head(ms)), Tail(ms))

\* extractTickers(text): a Set in insertion order, spread into an array
extractTickers(t) == AddMatches(AddMatches(<<>>, CashtagMatches(t, 1)), BareMatches(t, 1))

(***************************************************************************)
(* Array.prototype.sort(compare): stable (ECMAScript 2019), modelled as an *)
(* insertion sort.  InsertBefore places x before the first of the          *)
(* positions the comparator orders after it, or at the end.                *)
(***************************************************************************)
InsertBefore(sorted, x, later) ==
    LET at == IF later = {} THEN Len(sorted) + 1
              ELSE CHOOSE p \in later : \A q \in later : p <= q
    IN SubSeq(sorted, 1, at - 1) \o <<x>> \o SubSeq(sorted, at, Len(sorted))

(***************************************************************************)
(* src/api.js fetchTrending: from the listing's children to the ranked     *)
(* tickers.  A child is None (no data) or Some(post); a post is            *)
(* [title, selftext, score, num_comments, stickied], the first four None   *)
(* when the field is missing.  The mentions object is a sequence in key    *)
(* insertion order (ticker keys are never integer-like).                   *)
(***************************************************************************)
RankCap == 20

\* x || '' on a string, x || 0 on a number
OrEmpty(o) == IF IsPresent(o) THEN Val(o) ELSE <<>>
OrZero(o) == IF IsPresent(o) THEN Val(o) ELSE 0

\* `${post.title || ''} ${post.selftext || ''}`
PostText(post) == OrEmpty(post.title) \o <<" ">> \o OrEmpty(post.selftext)

\* a loop that reads pinned posts too
SkippedMissingOnly(child) == ~IsPresent(child)

\* if (!post || post.stickied) continue
Skipped(child) == ~IsPresent(child) \/ Val(child).stickied

\* the body of the inner loop for one ticker of one post
AddMention(mentions, ticker, post) ==
    LET known == \E k \in 1..Len(mentions) : mentions[k].ticker = ticker
        ms == IF known THEN mentions
              ELSE Append(mentions, [ticker |-> ticker, mention_count |-> 0,
                                     total_score |-> 0, total_comments |-> 0])
        at == CHOOSE k \in 1..Len(ms) : ms[k].ticker = ticker
    IN SubSeq(ms, 1, at - 1)
       \o <<[ms[at] EXCEPT !.mention_count = @ + 1,
                           !.total_score = @ + OrZero(post.score),
                           !.total_comments = @ + OrZero(post.num_comments)]>>
       \o SubSeq(ms, at + 1, Len(ms))

RECURSIVE AddMentions(_, _, _)
AddMentions(mentions, ts, post) ==
    IF ts = <<>> THEN mentions
    ELSE AddMentions(AddMention(mentions, Head(ts), post), Tail(ts), post)

\* the loop over children
RECURSIVE Aggregate(_, _)
Aggregate(mentions, cs) ==
    IF cs = <<>> THEN mentions
    ELSE IF Skipped(Head(cs)) THEN Aggregate(mentions, Tail(cs))
    ELSE Bind(extractTickers(PostText(Val(Head(cs)))),
              LAMBDA ts : Bind(AddMentions(mentions, ts, Val(Head(cs))),
                               LAMBDA next : Aggregate(next, Tail(cs))))

\* mention_count * 3 + total_score * 0.01 + total_comments * 0.05, in hundredths
WeightedScore(m) == m.mention_count * 300 + m.total_score + m.total_comments * 5

WithWeight(m) ==
    [ticker |-> m.ticker, mention_count |-> m.mention_count,
     total_score |-> m.total_score, total_comments |-> m.total_comments,
     weighted_score |-> WeightedScore(m)]

\* (a, b) => b.weighted_score - a.weighted_score
CompareWeighted(a, b) == b.weighted_score - a.weighted_score

\* an insertion that places x before its equals: a sort that is not stable
InsertByWeightedUnstable(sorted, x) ==
    InsertBefore(sorted, x, {p \in 1..Len(sorted) : CompareWeighted(sorted[p], x) >= 0})

\* .sort((a, b) => b.weighted_score - a.weighted_score)
InsertByWeighted(sorted, x) ==
    InsertBefore(sorted, x, {p \in 1..Len(sorted) : CompareWeighted(sorted[p], x) > 0})

SortByWeighted(s) ==
    LET upto[k \in 0..Len(s)] ==
            IF k = 0 THEN <<>> ELSE InsertByWeighted(upto[k - 1], s[k])
    IN upto[Len(s)]

\* Object.values(mentions).map(...).sort(...).slice(0, 20)
RankMentions(mentions) ==
    Slice(SortByWeighted([k \in 1..Len(mentions) |-> WithWeight(mentions[k])]), RankCap)

\* data?.data?.children || [] on the parsed body, then the tickers returned
FetchTrendingTickers(cs) == Bind(Aggregate(<<>>, cs), LAMBDA mentions : RankMentions(mentions))

(***************************************************************************)
(* src/App.jsx runAnalysis, lines 40-103: the recommendation built from    *)
(* one provider response.  A response body is None (null) or               *)
(* Some([fundamental, technical, risk]); each part is None or Some(record) *)
(* and each field of a part is None or Some(value).  detail.info and       *)
(* detail.price_history are passed to the cards unread and are left out.   *)
(***************************************************************************)
EmptyFundamental ==
    [score |-> None, trailing_pe |-> None, revenue_growth_yoy |-> None,
     debt_to_equity |-> None, dcf_upside_pct |-> None]
EmptyTechnical == [score |-> None, trend_signal |-> None]
EmptyRisk ==
    [score |-> None, sharpe_ratio |-> None, volatility_annual |-> None,
     max_drawdown |-> None]

\* detail.fundamental || {}, detail.technical || {}, detail.risk || {}
PartOr(o, empty) == IF IsPresent(o) THEN Val(o) ELSE empty

\* the truthiness of a number field and of a string field
TruthyNum(o) == IsPresent(o) /\ Val(o) # 0
TruthyStr(o) == IsPresent(o) /\ Val(o) # ""

\* (x.score || 50)
ScoreOrDefault(o) == IF TruthyNum(o) THEN Val(o) ELSE 50

\* a variant adding the sentiment placeholder 50 unweighted
CompositeFullSentiment(f, t, r) ==
    (35 * ScoreOrDefault(f.score) + 25 * ScoreOrDefault(t.score)
        + 20 * ScoreOrDefault(r.score) + 100 * 50 + 50) \div 100

\* Math.round(f * 0.35 + t * 0.25 + r * 0.20 + 50 * 0.20): half rounds up
\* (on sub-scores that are multiples of 5 the double arithmetic of the code
\* and this exact arithmetic round alike)
Composite(f, t, r) ==
    (35 * ScoreOrDefault(f.score) + 25 * ScoreOrDefault(t.score)
        + 20 * ScoreOrDefault(r.score) + 20 * 50 + 50) \div 100

\* a variant whose upper thresholds are exclusive
SignalOfStrict(composite) ==
    IF composite > 75 THEN "strong_buy"
    ELSE IF composite > 60 THEN "buy"
    ELSE IF composite <= 25 THEN "strong_sell"
    ELSE IF composite <= 40 THEN "sell"
    ELSE "hold"

SignalOf(composite) ==
    IF composite >= 75 THEN "strong_buy"
    ELSE IF composite >= 60 THEN "buy"
    ELSE IF composite <= 25 THEN "strong_sell"
    ELSE IF composite <= 40 THEN "sell"
    ELSE "hold"

Digit(d) == <<"0", "1", "2", "3", "4", "5", "6", "7", "8", "9">>[d + 1]

RECURSIVE IntStr(_)
IntStr(n) == IF n < 10 THEN Digit(n) ELSE IntStr(n \div 10) \o Digit(n % 10)

Pow10(d) == <<1, 10, 100, 1000>>[d + 1]

\* Number.prototype.toFixed(d), d in 0..2, of a value m held in thousandths
ToFixed(m, d) ==
    LET unit == Pow10(3 - d)
        scaled == (Abs(m) + unit \div 2) \div unit
        whole == scaled \div Pow10(d)
        frac == scaled % Pow10(d)
    IN (IF m < 0 THEN "-" ELSE "")
       \o IntStr(whole)
       \o (IF d = 0 THEN ""
           ELSE IF d = 1 THEN "." \o Digit(frac)
           ELSE "." \o Digit(frac \div 10) \o Digit(frac % 10))

\* if (cond) list.push(s)
PushIf(cond, s) == IF cond THEN <<s>> ELSE <<>>

ThesisParts(f, t, r) ==
    (IF TruthyNum(f.trailing_pe)
        THEN <<"P/E " \o ToFixed(Val(f.trailing_pe), 1)>> ELSE <<>>)
    \o (IF IsPresent(f.revenue_growth_yoy)
        THEN <<"revenue "
               \o (IF Val(f.revenue_growth_yoy) > 0 THEN "growing" ELSE "declining")
               \o " " \o ToFixed(Abs(Val(f.revenue_growth_yoy) * 100), 1) \o "% YoY">>
        ELSE <<>>)
    \o (IF TruthyStr(t.trend_signal) THEN <<Val(t.trend_signal) \o " trend">> ELSE <<>>)
    \o (IF IsPresent(r.sharpe_ratio)
        THEN <<"Sharpe " \o ToFixed(Val(r.sharpe_ratio), 2)>> ELSE <<>>)

Thesis(ticker, f, t, r) ==
    LET parts == ThesisParts(f, t, r)
    IN IF Len(parts) > 0 THEN ticker \o ": " \o JoinStr(parts, ", ") \o "."
       ELSE ticker \o ": Limited data available."

\* flags raised at the thresholds too
RiskFlagsInclusive(f, r) ==
    PushIf(TruthyNum(f.trailing_pe) /\ Val(f.trailing_pe) >= 50000, "Extreme valuation")
    \o PushIf(TruthyNum(f.debt_to_equity) /\ Val(f.debt_to_equity) >= 3000, "Heavy debt")
    \o PushIf(TruthyNum(r.volatility_annual) /\ Val(r.volatility_annual) >= 500,
              "High volatility")
    \o (IF TruthyNum(r.max_drawdown) /\ Val(r.max_drawdown) <= -300
        THEN <<ToFixed(Val(r.max_drawdown) * 100, 0) \o "% max drawdown">> ELSE <<>>)

RiskFlags(f, r) ==
    PushIf(TruthyNum(f.trailing_pe) /\ Val(f.trailing_pe) > 50000, "Extreme valuation")
    \o PushIf(TruthyNum(f.debt_to_equity) /\ Val(f.debt_to_equity) > 3000, "Heavy debt")
    \o PushIf(TruthyNum(r.volatility_annual) /\ Val(r.volatility_annual) > 500,
              "High volatility")
    \o (IF TruthyNum(r.max_drawdown) /\ Val(r.max_drawdown) < -300
        THEN <<ToFixed(Val(r.max_drawdown) * 100, 0) \o "% max drawdown">> ELSE <<>>)

Bull(f, t) ==
    (IF TruthyNum(f.dcf_upside_pct) /\ Val(f.dcf_upside_pct) > 0
        THEN <<"DCF suggests " \o ToFixed(Val(f.dcf_upside_pct) * 100, 0) \o "% upside">>
        ELSE <<>>)
    \o PushIf(TruthyNum(f.revenue_growth_yoy) /\ Val(f.revenue_growth_yoy) > 100,
              "Strong revenue growth")
    \o PushIf(t.trend_signal = Some("bullish"), "Bullish technicals")

Bear(f, t, r) ==
    (IF TruthyNum(f.trailing_pe) /\ Val(f.trailing_pe) > 40000
        THEN <<"Expensive (P/E " \o ToFixed(Val(f.trailing_pe), 0) \o ")">> ELSE <<>>)
    \o PushIf(t.trend_signal = Some("bearish"), "Bearish technicals")
    \o PushIf(TruthyNum(r.volatility_annual) /\ Val(r.volatility_annual) > 500,
              "Very volatile")

\* s || fallback on a string
StrOr(s, fallback) == IF s = "" THEN fallback ELSE s

\* a variant without the `|| {}` of line 40: reading the score of a missing
\* fundamental part throws too
SynthesisThrowsOnMissingPart(d) == ~IsPresent(d) \/ ~IsPresent(Val(d).fundamental)

\* reading detail.fundamental throws a TypeError when the body is null
SynthesisThrows(d) == ~IsPresent(d)

\* the rec object of lines 89-103, for a body that is not null; n is i + 1
BuildRec(ticker, d, n) ==
    LET f == PartOr(Val(d).fundamental, EmptyFundamental)
        t == PartOr(Val(d).technical, EmptyTechnical)
        r == PartOr(Val(d).risk, EmptyRisk)
        composite == Composite(f, t, r)
    IN [ticker |-> ticker,
        signal |-> SignalOf(composite),
        score |-> composite,
        investment_thesis |-> Thesis(ticker, f, t, r),
        bull_case |-> StrOr(JoinStr(Bull(f, t), ". "), "Limited bullish signals."),
        bear_case |-> StrOr(JoinStr(Bear(f, t, r), ". "), "Limited bearish signals."),
        risk_flags |-> RiskFlags(f, r),
        fundamental |-> f,
        technical |-> t,
        risk |-> r,
        wsb_mention_rank |-> n]

(***************************************************************************)
(* src/App.jsx: the React state of App and the async function runAnalysis. *)
(* stocks is the object keyed by ticker, as the sequence of its values in  *)
(* key insertion order.  pc is "idle" (no run), "feed" (awaiting           *)
(* fetchTrending) or "detail" (awaiting fetchStockDetail for tickers[i]).  *)
(* netlog lists the URLs requested and warned the console.warn lines of    *)
(* the current run.                                                        *)
(***************************************************************************)
AnalyzeCap == 8

FeedUrl == "https://www.reddit.com/r/wallstreetbets/hot.json?limit=25"
StockUrl(ticker) == "/api/stock/" \o ticker

TimeoutMessage == "Request timed out - the server may be starting up. Try again."
RedditErrorMessage == "Reddit returned an error - try again in a moment"
NoTickersMessage ==
    "No trending tickers found. Reddit may be rate-limiting - try again in a minute."
ScanningProgress == "Scanning r/WallStreetBets for trending stocks..."
NullBodyMessage == "Cannot read properties of null (reading 'fundamental')"
StockErrorMessage(ticker) == "Failed to analyze " \o ticker

\* `Analyzing ${ticker}... (${i + 1}/${tickers.length})`
AnalyzingProgress(ticker, n, total) ==
    "Analyzing " \o ticker \o "... (" \o IntStr(n) \o "/" \o IntStr(total) \o ")"

\* { ...prev, [ticker]: rec }: a known key keeps its place
PutStock(prev, ticker, r) ==
    IF \E k \in 1..Len(prev) : prev[k].ticker = ticker
    THEN [k \in 1..Len(prev) |-> IF prev[k].ticker = ticker THEN r ELSE prev[k]]
    ELSE Append(prev, r)

\* the comparator of an ascending sort
CompareScoreAscending(a, b) == a.score - b.score

\* (a, b) => b.score - a.score
CompareScore(a, b) == b.score - a.score

\* .sort((a, b) => b.score - a.score)
InsertByScore(sorted, x) ==
    InsertBefore(sorted, x, {p \in 1..Len(sorted) : CompareScore(sorted[p], x) > 0})

SortByScore(s) ==
    LET upto[k \in 0..Len(s)] ==
            IF k = 0 THEN <<>> ELSE InsertByScore(upto[k - 1], s[k])
    IN upto[Len(s)]

\* App: const recommendations = Object.values(stocks).sort(...)
Recommendations == SortByScore(stocks)

\* Dashboard: const sorted = [...recs].sort(...), recs the recommendations prop
DashboardSorted == SortByScore(Recommendations)

(***************************************************************************)
(* Inputs: what Reddit and the stock endpoint may answer.                  *)
(***************************************************************************)
MkPost(title, selftext, score, comments, stickied) ==
    Some([title |-> title, selftext |-> selftext, score |-> score,
          num_comments |-> comments, stickied |-> stickied])

RECURSIVE Flatten(_)
Flatten(ss) == IF ss = <<>> THEN <<>> ELSE Head(ss) \o Flatten(Tail(ss))

BulkLetters == <<"B", "C", "D", "E", "F", "G", "H", "J", "K", "L", "N">>

\* "$XB $XC ... $XN ": eleven cashtags
CashtagBulkText == Flatten([k \in 1..Len(BulkLetters) |-> <<"$", "X", BulkLetters[k], " ">>])
\* "YB YC ... YN ": eleven bare tickers
BareBulkText == Flatten([k \in 1..Len(BulkLetters) |-> <<"Y", BulkLetters[k], " ">>])

PostGme ==  \* "$GME" / "YOLO GME"
    MkPost(Some(<<"$", "G", "M", "E">>), Some(<<"Y", "O", "L", "O", " ", "G", "M", "E">>),
           Some(300), Some(40), FALSE)
PostAmc ==  \* "AMC to the MOON", no selftext
    MkPost(Some(<<"A", "M", "C", " ", "t", "o", " ", "t", "h", "e", " ", "M", "O", "O", "N">>),
           None, Some(100), Some(20), FALSE)
PostBoth ==  \* "GME, AMC and $F", no score, no comment count
    MkPost(Some(<<"G", "M", "E", ",", " ", "A", "M", "C", " ", "a", "n", "d", " ", "$", "F">>),
           Some(<<>>), None, None, FALSE)
PostPinned ==  \* a stickied post: "$TSLA"
    MkPost(Some(<<"$", "T", "S", "L", "A">>), None, Some(900), Some(100), TRUE)
PostCashtagBulk == MkPost(Some(CashtagBulkText), None, Some(100), Some(20), FALSE)
PostBareBulk == MkPost(None, Some(BareBulkText), Some(200), Some(0), FALSE)

\* the children a listing may hold: posts, and a child without data
Posts == {PostGme, PostAmc, PostBoth, PostPinned, PostCashtagBulk, PostBareBulk, None}

\* the listings the orchestrator is run on
SampleListings ==
    { <<>>,
      <<PostPinned, None>>,
      <<PostAmc>>,
      <<PostAmc, PostGme, PostBoth, PostPinned>>,
      <<PostCashtagBulk, PostBareBulk, PostGme>> }

\* the ways fetchTrending rejects: the timeout, a non-ok response, a network error
FeedErrors == {TimeoutMessage, RedditErrorMessage, "Failed to fetch"}

MkFundamental(score) == Some([EmptyFundamental EXCEPT !.score = score])
MkTechnical(score) == Some([EmptyTechnical EXCEPT !.score = score])
MkRisk(score) == Some([EmptyRisk EXCEPT !.score = score])

EmptyDetail == Some([fundamental |-> None, technical |-> None, risk |-> None])
StrongDetail ==
    Some([fundamental |-> Some([score |-> Some(90), trailing_pe |-> Some(18500),
                                revenue_growth_yoy |-> Some(250),
                                debt_to_equity |-> Some(500),
                                dcf_upside_pct |-> Some(300)]),
          technical |-> Some([score |-> Some(80), trend_signal |-> Some("bullish")]),
          risk |-> Some([score |-> Some(70), sharpe_ratio |-> Some(1500),
                         volatility_annual |-> Some(300), max_drawdown |-> Some(-150)])])
WeakDetail ==
    Some([fundamental |-> Some([score |-> Some(20), trailing_pe |-> Some(65000),
                                revenue_growth_yoy |-> Some(-125),
                                debt_to_equity |-> Some(4000),
                                dcf_upside_pct |-> Some(-200)]),
          technical |-> Some([score |-> Some(30), trend_signal |-> Some("bearish")]),
          risk |-> Some([score |-> Some(10), sharpe_ratio |-> Some(-250),
                         volatility_annual |-> Some(800), max_drawdown |-> Some(-450)])])

\* the bodies the stock endpoint answers a run with: null, and two bundles
SampleDetails == {None, StrongDetail, WeakDetail}

(***************************************************************************)
(* runAnalysis, step by step.  A step runs from one await to the next.     *)
(***************************************************************************)
AppInit ==
    /\ trending = <<>>
    /\ stocks = <<>>
    /\ loading = FALSE
    /\ progress = ""
    /\ error = None
    /\ pc = "idle"
    /\ data = None
    /\ tickers = <<>>
    /\ i = 0
    /\ netlog = <<>>
    /\ warned = <<>>

TextInit == text = <<>> /\ extracted = None
FeedInit == children = <<>> /\ ranked = None
SynthInit == detail = None /\ rec = None
RunInit == restarted = FALSE

Init == AppInit /\ TextInit /\ FeedInit /\ SynthInit /\ RunInit

\* a start without setStocks({}) and setTrending([])
StartKeepingResults ==
    /\ ~loading
    /\ loading' = TRUE
    /\ error' = None
    /\ progress' = ScanningProgress
    /\ netlog' = <<FeedUrl>>
    /\ warned' = <<>>
    /\ data' = None
    /\ tickers' = <<>>
    /\ i' = 0
    /\ pc' = "feed"
    /\ children' = <<>>
    /\ restarted' = (stocks # <<>>)
    /\ UNCHANGED <<stocks, trending, ranked, textVars, synthVars>>

\* the button "Run Analysis" (disabled while loading) or the one of EmptyState
\* (rendered only while not loading): lines 13-21 up to the await
Start ==
    /\ ~loading
    /\ loading' = TRUE
    /\ error' = None
    /\ stocks' = <<>>
    /\ trending' = <<>>
    /\ progress' = ScanningProgress
    /\ netlog' = <<FeedUrl>>
    /\ warned' = <<>>
    /\ data' = None
    /\ tickers' = <<>>
    /\ i' = 0
    /\ pc' = "feed"
    /\ children' = <<>>
    /\ restarted' = (stocks # <<>>)
    /\ UNCHANGED <<ranked, textVars, synthVars>>

\* an outer catch that ends the run without a message
FeedRejectedSilently(message) ==
    /\ pc = "feed"
    /\ loading' = FALSE
    /\ pc' = "idle"
    /\ UNCHANGED <<trending, stocks, progress, error, data, tickers, i, netlog, warned>>
    /\ UNCHANGED <<textVars, feedVars, synthVars, runVars>>

\* fetchTrending rejects: the outer catch, lines 113-116
FeedRejected(message) ==
    /\ pc = "feed"
    /\ error' = Some(message)
    /\ loading' = FALSE
    /\ pc' = "idle"
    /\ UNCHANGED <<trending, stocks, progress, data, tickers, i, netlog, warned>>
    /\ UNCHANGED <<textVars, feedVars, synthVars, runVars>>

\* the head of the loop body for the ticker at index k (0-based): lines 33-37
\* up to the await
RequestDetail(list, k) ==
    /\ i' = k
    /\ progress' = AnalyzingProgress(list[k + 1].ticker, k + 1, Len(list))
    /\ netlog' = Append(netlog, StockUrl(list[k + 1].ticker))
    /\ pc' = "detail"
    /\ UNCHANGED loading

\* the run ends without an error message, as after the loop (lines 111-112)
FinishQuietly ==
    /\ progress' = ""
    /\ loading' = FALSE
    /\ pc' = "idle"
    /\ UNCHANGED <<error, i, netlog>>

\* if (tickers.length === 0) { setError(...); setLoading(false); return }
ReportNoTickers ==
    /\ error' = Some(NoTickersMessage)
    /\ loading' = FALSE
    /\ pc' = "idle"
    /\ UNCHANGED <<i, progress, netlog>>

\* fetchTrending resolves with the tickers ranked from the listing cs:
\* lines 21-29, and the first pass into the loop
FeedResolved(cs) ==
    /\ pc = "feed"
    /\ LET result == [tickers |-> FetchTrendingTickers(cs)]
           list == Slice(result.tickers, AnalyzeCap)
       IN /\ data' = Some(result)
          /\ tickers' = list
          /\ trending' = list
          /\ IF Len(list) = 0
             THEN ReportNoTickers
             ELSE /\ RequestDetail(list, 0)
                  /\ UNCHANGED error
    /\ children' = cs
    /\ UNCHANGED <<stocks, warned>>
    /\ UNCHANGED <<ranked, textVars, synthVars, runVars>>

\* an end of the loop without setLoading(false)
NextTickerLeavesLoading ==
    IF i + 1 < Len(tickers)
    THEN RequestDetail(tickers, i + 1)
    ELSE /\ progress' = ""
         /\ pc' = "idle"
         /\ UNCHANGED <<loading, i, netlog>>

\* a loop that steps over every other ticker
NextTickerSkippingOne ==
    IF i + 2 < Len(tickers)
    THEN RequestDetail(tickers, i + 2)
    ELSE /\ progress' = ""
         /\ loading' = FALSE
         /\ pc' = "idle"
         /\ UNCHANGED <<i, netlog>>

\* the end of one pass of the loop: the next ticker, or lines 111-112
NextTicker ==
    IF i + 1 < Len(tickers)
    THEN RequestDetail(tickers, i + 1)
    ELSE /\ progress' = ""
         /\ loading' = FALSE
         /\ pc' = "idle"
         /\ UNCHANGED <<i, netlog>>

\* console.warn(`Skipping ${ticker}:`, e.message)
Warn(ticker, message) == warned' = Append(warned, <<"Skipping " \o ticker \o ":", message>>)

\* a rejection that reaches the outer catch, as it would with no inner try
DetailRejectedAborts ==
    /\ pc = "detail"
    /\ error' = Some(StockErrorMessage(tickers[i + 1].ticker))
    /\ loading' = FALSE
    /\ pc' = "idle"
    /\ UNCHANGED <<trending, stocks, progress, data, tickers, i, netlog, warned>>
    /\ UNCHANGED <<textVars, feedVars, synthVars, runVars>>

\* fetchStockDetail rejects (a non-ok response): the inner catch
DetailRejected ==
    /\ pc = "detail"
    /\ Warn(tickers[i + 1].ticker, StockErrorMessage(tickers[i + 1].ticker))
    /\ NextTicker
    /\ UNCHANGED <<trending, stocks, error, data, tickers>>
    /\ UNCHANGED <<textVars, feedVars, synthVars, runVars>>

\* fetchStockDetail resolves with the body d: lines 40-105, or the inner catch
\* when building the recommendation throws
DetailResolved(d) ==
    /\ pc = "detail"
    /\ LET ticker == tickers[i + 1].ticker
       IN IF SynthesisThrows(d)
          THEN /\ Warn(ticker, NullBodyMessage)
               /\ UNCHANGED stocks
          ELSE /\ stocks' = PutStock(stocks, ticker, BuildRec(ticker, d, i + 1))
               /\ UNCHANGED warned
    /\ NextTicker
    /\ UNCHANGED <<trending, error, data, tickers>>
    /\ UNCHANGED <<textVars, feedVars, synthVars, runVars>>

Next ==
    \/ Start
    \/ \E message \in FeedErrors : FeedRejected(message)
    \/ \E cs \in SampleListings : FeedResolved(cs)
    \/ DetailRejected
    \/ \E d \in SampleDetails : DetailResolved(d)

Spec == Init /\ [][Next]_vars

\* the feed request, and the stock request, is answered: it resolves or it
\* rejects (fetchWithTimeout aborts a request that stays unanswered)
FeedAnswered ==
    \/ \E message \in FeedErrors : FeedRejected(message)
    \/ \E cs \in SampleListings : FeedResolved(cs)

DetailAnswered ==
    \/ DetailRejected
    \/ \E d \in SampleDetails : DetailResolved(d)

LiveNext ==
    \/ Start
    \/ FeedAnswered
    \/ DetailAnswered

\* the runs of Spec in which every request is answered in the end
LiveSpec ==
    /\ Init
    /\ [][LiveNext]_vars
    /\ WF_vars(FeedAnswered)
    /\ WF_vars(DetailAnswered)

(***************************************************************************)
(* extractTickers on every text of up to MaxTextLen characters of          *)
(* TextChars, and fetchTrending on the listing of one post with that       *)
(* title.  TextChars holds two letters (A, I and AI are in the lexicon;    *)
(* AA, IA, ... are not), the dollar sign, a space and one word character   *)
(* that is no capital.                                                     *)
(***************************************************************************)
MaxTextLen == 6

TextChars == {"A", "I", "$", " ", "x"}

\* the text grows by one character until it is handed to extractTickers
Type(c) ==
    /\ extracted = None
    /\ Len(text) < MaxTextLen
    /\ text' = Append(text, c)
    /\ UNCHANGED <<extracted, appVars, feedVars, synthVars, runVars>>

Extract ==
    /\ extracted = None
    /\ extracted' = Some(extractTickers(text))
    /\ UNCHANGED <<text, appVars, feedVars, synthVars, runVars>>

\* fetchTrending on the listing whose one post has the text as its title
ScanPost ==
    /\ extracted # None
    /\ ranked = None
    /\ children' = <<MkPost(Some(text), None, Some(100), Some(20), FALSE)>>
    /\ ranked' = Some([tickers |-> FetchTrendingTickers(children')])
    /\ UNCHANGED <<appVars, textVars, synthVars, runVars>>

TextNext ==
    \/ \E c \in TextChars : Type(c)
    \/ Extract
    \/ ScanPost

TextSpec == Init /\ [][TextNext]_vars

(***************************************************************************)
(* fetchTrending on every listing of up to MaxPosts children of Posts.     *)
(***************************************************************************)
MaxPosts == 3

\* Reddit's hot listing gains a child
Post(child) ==
    /\ Len(children) < MaxPosts
    /\ children' = Append(children, child)
    /\ ranked' = None
    /\ UNCHANGED <<appVars, textVars, synthVars, runVars>>

\* fetchTrending resolves on the current listing
FetchTrending ==
    /\ ranked' = Some([tickers |-> FetchTrendingTickers(children)])
    /\ UNCHANGED <<children, appVars, textVars, synthVars, runVars>>

FeedNext ==
    \/ \E child \in Posts : Post(child)
    \/ FetchTrending

FeedSpec == Init /\ [][FeedNext]_vars

(***************************************************************************)
(* The synthesis of lines 40-103 on the bodies of Details: every           *)
(* combination of sub-scores on a grid of ScoreStep points (0 and absent   *)
(* included), every way for the three parts to be missing or empty, and    *)
(* the values of one part's fields around the thresholds the code tests.   *)
(***************************************************************************)
ScoreStep == 5

ScoreGrid == {k * ScoreStep : k \in 0..(100 \div ScoreStep)}
ScoreOptions == {None} \cup {Some(v) : v \in ScoreGrid}

ScoreDetails ==
    {Some([fundamental |-> MkFundamental(a), technical |-> MkTechnical(b),
           risk |-> MkRisk(c)]) : a, b, c \in ScoreOptions}

AbsentDetails ==
    {Some([fundamental |-> a, technical |-> b, risk |-> c]) :
        a \in {None, Some(EmptyFundamental)},
        b \in {None, Some(EmptyTechnical)},
        c \in {None, Some(EmptyRisk)}}

PeValues == {None, Some(0), Some(40000), Some(40500), Some(50000), Some(50500)}
GrowthValues == {None, Some(0), Some(100), Some(125), Some(-50)}
DebtValues == {None, Some(0), Some(3000), Some(3500)}
DcfValues == {None, Some(0), Some(150), Some(-100)}
TrendValues == {None, Some(""), Some("bullish"), Some("bearish"), Some("neutral")}
SharpeValues == {None, Some(0), Some(1250), Some(-500)}
VolatilityValues == {None, Some(0), Some(500), Some(550)}
DrawdownValues == {None, Some(0), Some(-300), Some(-350)}

FundamentalDetails ==
    {Some([fundamental |-> Some([score |-> None, trailing_pe |-> pe,
                                 revenue_growth_yoy |-> g, debt_to_equity |-> de,
                                 dcf_upside_pct |-> dcf]),
           technical |-> None, risk |-> None]) :
        pe \in PeValues, g \in GrowthValues, de \in DebtValues, dcf \in DcfValues}

TechnicalDetails ==
    {Some([fundamental |-> None,
           technical |-> Some([score |-> None, trend_signal |-> tr]),
           risk |-> None]) : tr \in TrendValues}

RiskDetails ==
    {Some([fundamental |-> None, technical |-> None,
           risk |-> Some([score |-> None, sharpe_ratio |-> sh,
                          volatility_annual |-> vol, max_drawdown |-> dd])]) :
        sh \in SharpeValues, vol \in VolatilityValues, dd \in DrawdownValues}

\* the four values the flags read, each at its threshold or past it
FlagDetails ==
    {Some([fundamental |-> Some([EmptyFundamental EXCEPT !.trailing_pe = Some(pe),
                                                         !.debt_to_equity = Some(de)]),
           technical |-> None,
           risk |-> Some([EmptyRisk EXCEPT !.volatility_annual = Some(vol),
                                           !.max_drawdown = Some(dd)])]) :
        pe \in {50000, 50500}, de \in {3000, 3500}, vol \in {500, 550}, dd \in {-300, -350}}

Details ==
    {None} \cup ScoreDetails \cup AbsentDetails \cup FundamentalDetails
           \cup TechnicalDetails \cup RiskDetails \cup FlagDetails \cup SampleDetails

SynthTickers == {"GME", "F"}

\* the provider has answered with one of the bodies
SynthStart ==
    AppInit /\ TextInit /\ FeedInit /\ RunInit /\ detail \in Details /\ rec = None

\* the loop body after the await, for the ticker at rank n: the recommendation,
\* or the warning of the inner catch
Synthesize(ticker, n) ==
    /\ rec = None
    /\ warned = <<>>
    /\ IF SynthesisThrows(detail)
       THEN /\ Warn(ticker, NullBodyMessage)
            /\ UNCHANGED rec
       ELSE /\ rec' = Some(BuildRec(ticker, detail, n))
            /\ UNCHANGED warned
    /\ UNCHANGED <<trending, stocks, loading, progress, error, pc, data, tickers, i, netlog>>
    /\ UNCHANGED <<detail, textVars, feedVars, runVars>>

SynthNext == \E ticker \in SynthTickers, n \in {1, AnalyzeCap} : Synthesize(ticker, n)

SynthSpec == SynthStart /\ [][SynthNext]_vars

(***************************************************************************)
(* Properties of runAnalysis, checked under Spec.                          *)
(***************************************************************************)
Range(s) == {s[k] : k \in 1..Len(s)}
NoDuplicates(s) == \A j, k \in 1..Len(s) : s[j] = s[k] => j = k

\* the tickers with a recommendation, and those a warning of this run names
StockTickers == {stocks[k].ticker : k \in 1..Len(stocks)}
SkippedTickers ==
    {tickers[k].ticker : k \in {j \in 1..Len(tickers) :
        \E w \in 1..Len(warned) : warned[w][1] = "Skipping " \o tickers[j].ticker \o ":"}}
\* the stock requests of this run, in the order issued
Requested == SubSeq(netlog, 2, Len(netlog))

\* C1: a ticker whose request failed or whose synthesis threw has no
\* recommendation; the tickers ranked after it are requested all the same, in
\* rank order, and each ends with a recommendation or a warning; the failure
\* leaves the error state unset.
C1_FailedTickerIsSkippedAndRunContinues ==
    /\ StockTickers \cap SkippedTickers = {}
    /\ \A k \in 1..Len(Requested) : Requested[k] = StockUrl(tickers[k].ticker)
    /\ pc = "detail" => Len(Requested) = i + 1
    /\ (pc = "idle" /\ tickers # <<>>) =>
            /\ Len(Requested) = Len(tickers)
            /\ \A k \in 1..Len(tickers) :
                    tickers[k].ticker \in StockTickers \cup SkippedTickers
    /\ warned # <<>> => error = None

C1_Witness ==
    /\ pc = "idle"
    /\ error = None
    /\ \E j, k \in 1..Len(tickers) :
            /\ j < k
            /\ tickers[j].ticker \in SkippedTickers
            /\ tickers[k].ticker \in StockTickers

\* C2: when the ranking yields no ticker, the run ends with the no-tickers
\* message in the error state, no stock request and no recommendation.
C2_NoTickersIsReportedWithoutSynthesis ==
    (data # None /\ Val(data).tickers = <<>>) =>
        /\ error = Some(NoTickersMessage)
        /\ ~loading
        /\ pc = "idle"
        /\ netlog = <<FeedUrl>>
        /\ stocks = <<>>
        /\ warned = <<>>

C2_Witness ==
    /\ data # None
    /\ Val(data).tickers = <<>>
    /\ children = <<PostPinned, None>>
    /\ error = Some(NoTickersMessage)

IsDescending(s) == \A k \in 1..(Len(s) - 1) : s[k].score >= s[k + 1].score
SameElements(a, b) == Len(a) = Len(b) /\ Range(a) = Range(b)

\* C3: in every state the list App derives from stocks, and the list
\* Dashboard derives from that, hold the recommendations of stocks in
\* descending order of score.
C3_DisplayedListIsSortedByScore ==
    /\ IsDescending(Recommendations)
    /\ SameElements(Recommendations, stocks)
    /\ IsDescending(DashboardSorted)
    /\ SameElements(DashboardSorted, stocks)

C3_Witness ==
    /\ Len(stocks) >= 3
    /\ \E j, k \in 1..Len(stocks) : j < k /\ stocks[j].score < stocks[k].score

\* C9: the ranked list has at most 20 entries; the stock requests of a run
\* are for the first entries of that list, in order, at most 8 and none
\* twice; stocks holds at most 8 recommendations, one per ticker.
C9_RankedAndRequestedAreCapped ==
    /\ data # None => Len(Val(data).tickers) <= 20
    /\ Len(Requested) <= 8
    /\ data # None =>
            \A k \in 1..Len(Requested) :
                Requested[k] = StockUrl(Val(data).tickers[k].ticker)
    /\ NoDuplicates(Requested)
    /\ Len(stocks) <= 8
    /\ NoDuplicates([k \in 1..Len(stocks) |-> stocks[k].ticker])

C9_Witness ==
    /\ data # None
    /\ Len(Val(data).tickers) = 20
    /\ Len(Requested) = 8
    /\ Len(stocks) = 8

(***************************************************************************)
(* Properties of extractTickers, checked under TextSpec.                   *)
(***************************************************************************)
\* the strings of 1 to 5 capitals that the characters of TextChars can spell
TickerShaped ==
    {JoinStr(w, "") : w \in UNION {[1..n -> TextChars \cap UpperChars] : n \in 1..5}}

\* C7: every ticker extractTickers returns is 1 to 5 capitals, is not in the
\* lexicon and is returned once; no entry of the ranked list has a ticker of
\* the lexicon.
C7_ExtractedTickersAreWellFormed ==
    /\ extracted # None =>
            /\ \A t \in Range(Val(extracted)) : t \in TickerShaped /\ t \notin FALSE_POSITIVES
            /\ NoDuplicates(Val(extracted))
    /\ ranked # None =>
            \A m \in Range(Val(ranked).tickers) :
                m.ticker \in TickerShaped /\ m.ticker \notin FALSE_POSITIVES

\* "$IA AI": IA is matched by both patterns and returned once, AI is dropped
C7_Witness ==
    /\ text = <<"$", "I", "A", " ", "A", "I">>
    /\ extracted = Some(<<"IA">>)
    /\ ranked # None
    /\ Len(Val(ranked).tickers) = 1

(***************************************************************************)
(* Properties of the synthesis, checked under SynthSpec.                   *)
(***************************************************************************)
\* the parts of the body as the synthesis reads them
PartsOf(d) ==
    [f |-> PartOr(Val(d).fundamental, EmptyFundamental),
     t |-> PartOr(Val(d).technical, EmptyTechnical),
     r |-> PartOr(Val(d).risk, EmptyRisk)]

\* C4: the composite score stored in a recommendation is an integer of
\* 0..100, for every body whose sub-scores are absent or lie in 0..100.
C4_CompositeScoreIsIntegerInRange ==
    rec # None => Val(rec).score \in 0..100

\* the three sub-scores at 100: the highest composite, 90
C4_Witness ==
    /\ rec # None
    /\ IsPresent(detail)
    /\ PartsOf(detail).f.score = Some(100)
    /\ PartsOf(detail).t.score = Some(100)
    /\ PartsOf(detail).r.score = Some(100)
    /\ Val(rec).score = 90

\* a sub-score as C5 reads it: 50 exactly when absent, a supplied 0 kept
SuppliedOrDefault(o) == IF IsPresent(o) THEN Val(o) ELSE 50

RoundedWeightedSum(f, t, r) == (35 * f + 25 * t + 20 * r + 1000 + 50) \div 100

\* C5: the composite score equals round(0.35 F + 0.25 T + 0.20 R + 10), each
\* sub-score replaced by 50 exactly when it is absent and used as supplied
\* otherwise, a supplied 0 included; F=80, T=60, R=40 gives 61.
C5_CompositeUsesSuppliedSubScores ==
    /\ RoundedWeightedSum(80, 60, 40) = 61
    /\ rec # None =>
         Val(rec).score = RoundedWeightedSum(SuppliedOrDefault(PartsOf(detail).f.score),
                                             SuppliedOrDefault(PartsOf(detail).t.score),
                                             SuppliedOrDefault(PartsOf(detail).r.score))

\* the band of a composite score
Band(c) ==
    CASE c >= 75 -> "strong_buy"
      [] c \in 60..74 -> "buy"
      [] c \in 41..59 -> "hold"
      [] c \in 26..40 -> "sell"
      [] c <= 25 -> "strong_sell"

Signals == {"strong_buy", "buy", "hold", "sell", "strong_sell"}

\* C6: the signal is a total function of the integer composite score with
\* five bands that do not overlap: >= 75 strong_buy, 60..74 buy, 41..59 hold,
\* 26..40 sell, <= 25 strong_sell; so for every score of 0..100, and so for
\* the signal stored next to the score in every recommendation.
C6_SignalFollowsTheFiveBands ==
    /\ \A c \in 0..100 :
         /\ SignalOf(c) \in Signals
         /\ SignalOf(c) = Band(c)
    /\ rec # None => Val(rec).signal = Band(Val(rec).score)

\* a recommendation on the boundary 75
C6_Witness ==
    /\ rec # None
    /\ Val(rec).score = 75
    /\ Val(rec).signal = "strong_buy"

\* the synthesis has run on the body: it recorded or it warned
Synthesized == rec # None \/ warned # <<>>

\* C10: on a body whose three parts are missing or empty the synthesis does
\* not throw and records the fallbacks: composite 50, signal hold, the
\* "Limited data available" thesis, the "Limited bullish signals" and
\* "Limited bearish signals" cases and no risk flag.
C10_AbsentMetricsGiveTheFallbacks ==
    (detail \in AbsentDetails /\ Synthesized) =>
        /\ warned = <<>>
        /\ rec # None
        /\ Val(rec).score = 50
        /\ Val(rec).signal = "hold"
        /\ Val(rec).investment_thesis = Val(rec).ticker \o ": Limited data available."
        /\ Val(rec).bull_case = "Limited bullish signals."
        /\ Val(rec).bear_case = "Limited bearish signals."
        /\ Val(rec).risk_flags = <<>>

\* the body {} (no part at all), synthesized for GME
C10_Witness ==
    /\ detail = EmptyDetail
    /\ rec # None
    /\ Val(rec).ticker = "GME"
    /\ Val(rec).investment_thesis = "GME: Limited data available."
    /\ Val(rec).score = 50

(***************************************************************************)
(* Properties of fetchTrending, checked under FeedSpec.                    *)
(***************************************************************************)
\* the documents of the listing that are read, by position
Docs == {k \in 1..Len(children) : ~Skipped(children[k])}

\* the table of the tickers found in each document, in the order returned
Found == {<<k, extractTickers(PostText(Val(children[k])))>> : k \in Docs}

TickersOf(found, k) == (CHOOSE e \in found : e[1] = k)[2]

Discovered(found) == UNION {Range(e[2]) : e \in found}

DocsOf(found, t) == {e[1] : e \in {x \in found : t \in Range(x[2])}}

RECURSIVE SumOver(_, _)
SumOver(ks, field) ==
    IF ks = {} THEN 0
    ELSE LET k == CHOOSE x \in ks : TRUE
         IN OrZero(Val(children[k])[field]) + SumOver(ks \ {k}, field)

\* what the claim expects of ticker t: its sums, its weighted score in
\* hundredths and the place of its discovery (document, position in it)
Expected(found, t) ==
    LET ks == DocsOf(found, t)
        first == CHOOSE k \in ks : \A q \in ks : k <= q
        ts == TickersOf(found, first)
        mention_count == Cardinality(ks)
        total_score == SumOver(ks, "score")
        total_comments == SumOver(ks, "num_comments")
    IN [ticker |-> t,
        mention_count |-> mention_count,
        total_score |-> total_score,
        total_comments |-> total_comments,
        weighted_score |-> 300 * mention_count + total_score + 5 * total_comments,
        doc |-> first,
        pos |-> CHOOSE p \in 1..Len(ts) : ts[p] = t]

\* a is ranked ahead of b: a higher weighted score, or the same and found first
Ahead(a, b) ==
    \/ a.weighted_score > b.weighted_score
    \/ /\ a.weighted_score = b.weighted_score
       /\ \/ a.doc < b.doc
          \/ a.doc = b.doc /\ a.pos < b.pos

\* C8: the ranked list is the list of all mentions ordered by weighted score
\* (3 per mention, 0.01 per point of score, 0.05 per comment) descending,
\* equal weighted scores in discovery order (document order, then the order
\* extractTickers returned), cut to its first 20 entries; it is a function
\* of the document sequence.
C8_RankedByWeightedScoreStableTop20 ==
    ranked # None =>
        LET all == {Expected(Found, t) : t \in Discovered(Found)}
            place == {<<e, 1 + Cardinality({o \in all : Ahead(o, e)})>> : e \in all}
            list == Val(ranked).tickers
        IN /\ Len(list) = Min(20, Cardinality(all))
           /\ \A p \in 1..Len(list) :
                \E x \in place :
                    /\ x[2] = p
                    /\ list[p] = [ticker |-> x[1].ticker,
                                  mention_count |-> x[1].mention_count,
                                  total_score |-> x[1].total_score,
                                  total_comments |-> x[1].total_comments,
                                  weighted_score |-> x[1].weighted_score]

\* 23 tickers: GME at 8.00 leads, the 22 others tie at 5.00 and keep their
\* discovery order; the last three are cut
C8_Witness ==
    /\ children = <<PostCashtagBulk, PostBareBulk, PostGme>>
    /\ ranked # None
    /\ Len(Val(ranked).tickers) = 20
    /\ Val(ranked).tickers[1].ticker = "GME"
    /\ Val(ranked).tickers[1].weighted_score = 800
    /\ Val(ranked).tickers[2].ticker = "XB"
    /\ Val(ranked).tickers[2].weighted_score = 500
    /\ Val(ranked).tickers[13].ticker = "YB"
    /\ Val(ranked).tickers[20].ticker = "YJ"
    /\ Val(ranked).tickers[20].weighted_score = 500

(***************************************************************************)
(* Further properties of runAnalysis, checked under Spec.                  *)
(***************************************************************************)
\* the requests of this run that have been answered, and the one that is not
Settled == Len(stocks) + Len(warned)
Outstanding == Len(Requested) - Settled

\* C11: the tickers of a run are processed one at a time in rank order: at
\* most one stock request is outstanding, the request for rank n + 1 is
\* issued only when the tickers of ranks 1..n each have their recommendation
\* or their warning, recommendations enter the results in increasing rank
\* and each carries its 1-based position in the attempted list as its rank.
C11_TickersProcessedOneAtATimeInRankOrder ==
    /\ Outstanding = (IF pc = "detail" THEN 1 ELSE 0)
    /\ \A k \in 1..Len(Requested) : Requested[k] = StockUrl(tickers[k].ticker)
    /\ \A k \in 1..Len(tickers) :
            tickers[k].ticker \in StockTickers \cup SkippedTickers <=> k <= Settled
    /\ \A k \in 1..Len(stocks) :
            /\ stocks[k].wsb_mention_rank \in 1..Len(tickers)
            /\ tickers[stocks[k].wsb_mention_rank].ticker = stocks[k].ticker
    /\ \A j, k \in 1..Len(stocks) :
            j < k => stocks[j].wsb_mention_rank < stocks[k].wsb_mention_rank

\* the request for rank 3 is outstanding; rank 1 was skipped, rank 2 recorded
C11_Witness ==
    /\ pc = "detail"
    /\ i = 2
    /\ Len(Requested) = 3
    /\ tickers[1].ticker \in SkippedTickers
    /\ Len(stocks) = 1
    /\ stocks[1].ticker = tickers[2].ticker
    /\ stocks[1].wsb_mention_rank = 2

\* r is a recommendation for the ticker at rank n of this run, built from one
\* of the bodies the stock endpoint answers with
WrittenBy(r, n) ==
    /\ r.ticker = tickers[n].ticker
    /\ r.wsb_mention_rank = n
    /\ \E d \in {x \in SampleDetails : ~SynthesisThrows(x)} :
            /\ r.fundamental = PartsOf(d).f
            /\ r.technical = PartsOf(d).t
            /\ r.risk = PartsOf(d).r
            /\ r.score = Composite(PartsOf(d).f, PartsOf(d).t, PartsOf(d).r)

\* C12: a started run discards what earlier runs left: until its ranking
\* resolves the results and the trending list are empty, afterwards the
\* trending list is the attempted list of this run and every recommendation
\* in the results was written by this run, for a ticker this run requested
\* and did not skip.  (A run starts only while no run is in progress.)
C12_RunHoldsOnlyItsOwnResults ==
    /\ pc = "feed" => stocks = <<>> /\ trending = <<>>
    /\ pc # "feed" => trending = tickers
    /\ data # None => tickers = Slice(Val(data).tickers, AnalyzeCap)
    /\ loading <=> pc # "idle"
    /\ \A k \in 1..Len(stocks) :
            /\ stocks[k].wsb_mention_rank \in 1..Len(Requested)
            /\ WrittenBy(stocks[k], stocks[k].wsb_mention_rank)
            /\ stocks[k].ticker \notin SkippedTickers
    /\ NoDuplicates([k \in 1..Len(stocks) |-> stocks[k].ticker])

\* a second run, begun over the results of an earlier one, has ended with the
\* one recommendation of its own listing
C12_Witness ==
    /\ restarted
    /\ pc = "idle"
    /\ children = <<PostAmc>>
    /\ Len(tickers) = 1
    /\ Len(stocks) = 1
    /\ stocks[1].ticker = "AMC"

(***************************************************************************)
(* Further properties of fetchTrending, checked under FeedSpec.            *)
(***************************************************************************)
\* the mentions object when the loop over the listing has ended
Mentions == Aggregate(<<>>, children)

\* the documents that are not pinned, and the tickers their text yields
NonPinned == {k \in 1..Len(children) : IsPresent(children[k]) /\ ~Val(children[k]).stickied}
Yielded == {<<k, extractTickers(PostText(Val(children[k])))>> : k \in NonPinned}

\* C13: after the aggregation every mention counts the non-pinned documents
\* whose title and body yield its ticker, each once (so at least one), and
\* holds the sum of their scores and of their comment counts; there is one
\* mention per ticker yielded and pinned documents add to none.
C13_MentionsCountDocumentsAndSumTheirFigures ==
    ranked # None =>
        LET mentions == Mentions
            yielded == Yielded
        IN /\ NoDuplicates([k \in 1..Len(mentions) |-> mentions[k].ticker])
           /\ {mentions[k].ticker : k \in 1..Len(mentions)} = Discovered(yielded)
           /\ \A k \in 1..Len(mentions) :
                 LET ks == DocsOf(yielded, mentions[k].ticker)
                 IN /\ mentions[k].mention_count = Cardinality(ks)
                    /\ mentions[k].mention_count >= 1
                    /\ mentions[k].total_score = SumOver(ks, "score")
                    /\ mentions[k].total_comments = SumOver(ks, "num_comments")

\* GME twice in one post and once in another: counted 2, with the figures of
\* the one post that has any; the pinned post's TSLA has no mention
C13_Witness ==
    /\ children = <<PostGme, PostBoth, PostPinned>>
    /\ ranked # None
    /\ Mentions = << [ticker |-> "GME", mention_count |-> 2, total_score |-> 300,
                      total_comments |-> 40],
                     [ticker |-> "F", mention_count |-> 1, total_score |-> 0,
                      total_comments |-> 0],
                     [ticker |-> "AMC", mention_count |-> 1, total_score |-> 0,
                      total_comments |-> 0] >>

(***************************************************************************)
(* Further properties of the synthesis, checked under SynthSpec.           *)
(***************************************************************************)
\* the four clauses of the thesis, each included or not, the revenue clause
\* with a given label
ClausePe(f, included) ==
    IF included THEN <<"P/E " \o ToFixed(Val(f.trailing_pe), 1)>> ELSE <<>>
ClauseRevenue(f, label) ==
    IF IsPresent(f.revenue_growth_yoy)
    THEN <<"revenue " \o label \o " "
           \o ToFixed(Abs(Val(f.revenue_growth_yoy) * 100), 1) \o "% YoY">>
    ELSE <<>>
ClauseTrend(t, included) ==
    IF included THEN <<Val(t.trend_signal) \o " trend">> ELSE <<>>
ClauseSharpe(r) ==
    IF IsPresent(r.sharpe_ratio) THEN <<"Sharpe " \o ToFixed(Val(r.sharpe_ratio), 2)>> ELSE <<>>

\* the thesis made of the clauses, or the sentence for none
ThesisOf(ticker, clauses) ==
    IF clauses = <<>> THEN ticker \o ": Limited data available."
    ELSE ticker \o ": " \o JoinStr(clauses, ", ") \o "."

\* the label the code gives a revenue growth that is present
CodeLabel(f) ==
    IF IsPresent(f.revenue_growth_yoy) /\ Val(f.revenue_growth_yoy) > 0
    THEN "growing" ELSE "declining"

\* the label C15 gives it: declining only below zero
SignLabel(f) ==
    IF IsPresent(f.revenue_growth_yoy) /\ Val(f.revenue_growth_yoy) < 0
    THEN "declining" ELSE "growing"

\* C14: the thesis is the ticker and the clauses P/E, revenue growth, trend,
\* Sharpe in that order, each included exactly when its value is present
\* (not null), a present 0 included; the "Limited data" sentence stands
\* exactly when none of the four is present.
C14_ThesisClausesFollowPresence ==
    rec # None =>
        LET p == PartsOf(detail)
        IN Val(rec).investment_thesis =
              ThesisOf(Val(rec).ticker,
                       ClausePe(p.f, IsPresent(p.f.trailing_pe))
                       \o ClauseRevenue(p.f, CodeLabel(p.f))
                       \o ClauseTrend(p.t, IsPresent(p.t.trend_signal))
                       \o ClauseSharpe(p.r))

\* C15: the revenue clause of the thesis says "declining" only for a growth
\* below zero; every other value that is present, 0 included, is "growing".
C15_RevenueLabelFollowsSign ==
    rec # None =>
        LET p == PartsOf(detail)
        IN Val(rec).investment_thesis =
              ThesisOf(Val(rec).ticker,
                       ClausePe(p.f, TruthyNum(p.f.trailing_pe))
                       \o ClauseRevenue(p.f, SignLabel(p.f))
                       \o ClauseTrend(p.t, TruthyStr(p.t.trend_signal))
                       \o ClauseSharpe(p.r))

\* a value that is present and past a threshold, in thousandths
Above(o, threshold) == IsPresent(o) /\ Val(o) > threshold
Below(o, threshold) == IsPresent(o) /\ Val(o) < threshold

\* C16: the risk flags are, in this order and each on its own, "Extreme
\* valuation" exactly when the P/E is above 50, "Heavy debt" exactly when
\* debt to equity is above 3, "High volatility" exactly when the annual
\* volatility is above 0.5 and the max-drawdown flag exactly when the max
\* drawdown is below -0.30; nothing else, and nothing at a threshold.
C16_RiskFlagsFollowTheThresholds ==
    rec # None =>
        LET p == PartsOf(detail)
        IN Val(rec).risk_flags =
              (IF Above(p.f.trailing_pe, 50000) THEN <<"Extreme valuation">> ELSE <<>>)
              \o (IF Above(p.f.debt_to_equity, 3000) THEN <<"Heavy debt">> ELSE <<>>)
              \o (IF Above(p.r.volatility_annual, 500) THEN <<"High volatility">> ELSE <<>>)
              \o (IF Below(p.r.max_drawdown, -300)
                  THEN <<ToFixed(Val(p.r.max_drawdown) * 100, 0) \o "% max drawdown">>
                  ELSE <<>>)

\* P/E 50 and volatility 0.5 sit at their thresholds and raise nothing; debt
\* 3.5 and drawdown -0.35 raise their flags
C16_Witness ==
    /\ rec # None
    /\ IsPresent(detail)
    /\ PartsOf(detail).f.trailing_pe = Some(50000)
    /\ PartsOf(detail).f.debt_to_equity = Some(3500)
    /\ PartsOf(detail).r.volatility_annual = Some(500)
    /\ PartsOf(detail).r.max_drawdown = Some(-350)
    /\ Val(rec).risk_flags = <<"Heavy debt", "-35% max drawdown">>

(***************************************************************************)
(* The failure and the end of a run, checked under Spec and LiveSpec.      *)
(***************************************************************************)
\* a run has ended and its ranking never resolved
FeedFailed == pc = "idle" /\ netlog # <<>> /\ data = None

\* C17: when the feed request times out or is answered with a non-success
\* response (or fails otherwise), the run ends with the failure message in
\* the error state; the feed is requested once per run, no stock request is
\* made and nothing is recorded.
C17_FeedFailureIsSurfacedWithoutRetry ==
    /\ FeedFailed =>
            /\ error \in {Some(message) : message \in FeedErrors}
            /\ ~loading
            /\ netlog = <<FeedUrl>>
            /\ stocks = <<>>
            /\ trending = <<>>
            /\ warned = <<>>
    /\ error \in {Some(TimeoutMessage), Some(RedditErrorMessage)} => FeedFailed
    /\ \A k \in 1..Len(netlog) : netlog[k] = FeedUrl <=> k = 1

\* a second run, begun over earlier results, has ended on the timeout
C17_Witness ==
    /\ FeedFailed
    /\ restarted
    /\ error = Some(TimeoutMessage)
    /\ netlog = <<FeedUrl>>
    /\ stocks = <<>>

\* C18: every started run finishes, whichever way it goes, when its requests
\* are answered: loading is true exactly from the start of a run to its end,
\* and a state with loading true leads to one with loading false.
C18_EveryRunFinishes ==
    /\ [](loading <=> pc # "idle")
    /\ loading ~> ~loading

\* a run has ended after its three tickers all failed
C18_Witness ==
    /\ ~loading
    /\ pc = "idle"
    /\ error = None
    /\ Len(tickers) = 3
    /\ Len(warned) = 3
    /\ stocks = <<>>
====
